---- MODULE Spec2Model ----
(***************************************************************************)
(* State-machine model of the `secrets` command line tool                  *)
(* (seal = encrypt, open = decrypt): project root discovery, key name      *)
(* resolution, file classification, the gcloud-kms gateway and the         *)
(* .gitignore manager.                                                     *)
(*                                                                         *)
(* Representation.  A file or directory NAME is a sequence of text tokens  *)
(* whose concatenation is the name ("secret.yaml.enc" is                   *)
(* <<"secret.yaml", ".enc">>), so that the suffix patterns of the code are *)
(* computed on the name and not looked up.  An absolute PATH is a sequence *)
(* of names; <<>> is the filesystem root "/".  A path whose first name is  *)
(* "." is relative to the working directory; the path << <<"">> >> is the  *)
(* empty string.                                                           *)
(*                                                                         *)
(* External collaborators.  git and gcloud are processes the code only     *)
(* observes through exit status and output.  gcloud's answers are inputs   *)
(* chosen at every invocation.  git's answers are a function of the        *)
(* repository state on disk (the .git entries of the filesystem, the       *)
(* index, the ignore rules): a query fails when ProjectRoot is in no       *)
(* repository or the file lies outside it.                                 *)
(***************************************************************************)
EXTENDS Integers, Sequences, FiniteSets, TLC

VARIABLES
    \* ---- command line and environment, fixed during a run
    cmd,          \* options.Cmd
    dryRun,       \* options.DryRun
    openAll,      \* options.OpenAll
    rootOpt,      \* options.ProjectRoot (--root), EmptyPath when absent
    keyOpt,       \* options.Key (--key), <<>> when absent
    cwd,          \* working directory of the process
    cwdOk,        \* FALSE when the working directory cannot be determined
    fs,           \* filesystem: path -> "file" | "dir" | "baddir"
    tracked,      \* files in the index of the repository
    staleIgnored, \* files matched by ignore rules outside ProjectRoot/.gitignore
    remote,       \* what `git remote -v` answers: [err, out]
    \* ---- the run
    pc,           \* position of the process
    rp,           \* argument of the current findProjectRoot call
    visited,      \* directories findProjectRoot has been called on
    rootRes,      \* what findProjectRoot returned: [path, err]
    projectRoot,  \* main.projectRoot
    key,          \* main.key
    repoRes,      \* what getProjectRepo returned to getKeyName: [err, project]
    files,        \* options.Files
    idx,          \* position of the batch loop in files
    kop,          \* operation of the current callKms: "encrypt" | "decrypt"
    nCall,        \* crypto invocations of the current Encrypt/Decrypt call
    nCreate,      \* key creations of the current Encrypt/Decrypt call
    kres,         \* what the current Encrypt/Decrypt call returned
    kmsLog,       \* gcloud invocations of the current call: [op, ans]
    kmsInvoked,   \* an external key-management process was started in the run
    gwLog,        \* batch positions for which Encrypt/Decrypt was entered
    gitignore,    \* ProjectRoot/.gitignore: [lines, open]
    ignRes,       \* what the last AddToIgnored returned
    ignLog,       \* one record per AddToIgnored call
    classified,   \* number of runs of the file classifier
    exitCode      \* process exit code, NoExit while running

vars == <<cmd, dryRun, openAll, rootOpt, keyOpt, cwd, cwdOk, fs, tracked,
          staleIgnored, remote, pc, rp, visited, rootRes, projectRoot, key, repoRes,
          files, idx, kop, nCall, nCreate, kres, kmsLog, kmsInvoked, gwLog,
          gitignore,
          ignRes, ignLog, classified, exitCode>>

envVars == <<cmd, dryRun, openAll, rootOpt, keyOpt, cwd, cwdOk, fs, tracked,
             staleIgnored, remote>>

(***************************************************************************)
(* Bounds of the model.                                                    *)
(***************************************************************************)
\* Depth of the working directory below the filesystem root.
MaxDepth == 2
\* Longest batch of explicit file arguments.
MaxFiles == 2
\* Key creations after which the service stops answering "not found".
MaxCreates == 2
\* Longest output (in tokens) of the remote query.
MaxRemoteLen == 6
\* Most remotes the remote query lists.
MaxRemotes == 2

\* exitCode while the process is running.
NoExit == 0 - 1

(***************************************************************************)
(* Names and paths.                                                        *)
(***************************************************************************)
nDot       == <<".">>
nEmpty     == <<"">>
nSlash     == <<"/">>
nGit       == <<".git">>
nGitignore == <<".gitignore">>
nNodeMod   == <<"node_modules">>
nMongo     == <<"mongo-data">>
nA         == <<"a">>
nWork      == <<"work">>
nProj      == <<"proj">>
nSub       == <<"sub">>
nSecret    == <<"secret.yaml">>
nMySecret  == <<"my-", "secret.yml">>
nOther     == <<"other.yaml">>
nSecretEnc == <<"secret.yaml", ".enc">>
nXEnc      == <<"x", ".enc">>

\* The empty string as a path, and "." as a path.
EmptyPath == <<nEmpty>>
DotPath   == <<nDot>>

Last(s) == s[Len(s)]
Front(s) == SubSeq(s, 1, Len(s) - 1)

IsPrefix(p, q) == Len(p) <= Len(q) /\ SubSeq(q, 1, Len(p)) = p

\* filepath.IsAbs
IsAbs(p) == p = <<>> \/ (p[1] # nDot /\ p[1] # nEmpty)

\* The name of the directory at depth k of the chain the working directory
\* lies on.
ChainName(k) == CASE k = 1 -> nWork [] k = 2 -> nProj [] OTHER -> nSub

RECURSIVE Dir(_)
Dir(k) == IF k = 0 THEN <<>> ELSE Append(Dir(k - 1), ChainName(k))

\* filepath.Abs: [err, path].  An absolute path is returned cleaned; a
\* relative one is joined to the working directory, which fails when the
\* working directory cannot be determined.
Abs(p) ==
    IF IsAbs(p) THEN [err |-> FALSE, path |-> p]
    ELSE IF ~cwdOk THEN [err |-> TRUE, path |-> EmptyPath]
    ELSE [err |-> FALSE, path |-> cwd \o Tail(p)]

\* A parent function under which every directory is its own parent.
ParentSelf(p) == p

\* filepath.Join(path, ".."): the parent; the parent of "/" is "/".
Parent(p) == IF p = <<>> THEN <<>> ELSE Front(p)

\* filepath.Base: the last name; "/" for the root, "." for the empty string.
Base(p) ==
    IF p = <<>> THEN nSlash
    ELSE IF p = EmptyPath THEN nDot
    ELSE Last(p)

Exists(p) == p \in DOMAIN fs
IsDirKind(k) == k \in {"dir", "baddir"}

(***************************************************************************)
(* Project Root Resolver.                                                  *)
(***************************************************************************)
\* os.Stat(path/.git) succeeds and names a directory.
isProjectRoot(path) ==
    LET g == Append(path, nGit)
    IN  IF ~Exists(g) THEN FALSE ELSE IsDirKind(fs[g])

\* One invocation of findProjectRoot on rp: it returns, or calls itself on
\* the parent.
findProjectRoot ==
    /\ pc = "findRoot"
    /\ LET a == Abs(rp)
           path == a.path
           nextPath == Parent(path)
       IN  \/ /\ a.err
              /\ rootRes' = [path |-> EmptyPath, err |-> "abs"]
              /\ pc' = "rootDone"
              /\ UNCHANGED <<rp, visited>>
           \/ /\ ~a.err
              /\ path = nextPath
              /\ rootRes' = [path |-> path, err |-> "notInProject"]
              /\ visited' = Append(visited, path)
              /\ pc' = "rootDone"
              /\ UNCHANGED rp
           \/ /\ ~a.err
              /\ path # nextPath
              /\ isProjectRoot(path)
              /\ rootRes' = [path |-> path, err |-> "nil"]
              /\ visited' = Append(visited, path)
              /\ pc' = "rootDone"
              /\ UNCHANGED rp
           \/ /\ ~a.err
              /\ path # nextPath
              /\ ~isProjectRoot(path)
              /\ rp' = nextPath
              /\ visited' = Append(visited, path)
              /\ UNCHANGED <<rootRes, pc>>
    /\ UNCHANGED <<envVars, projectRoot, key, repoRes, files, idx, kop, nCall,
                   nCreate, kres, kmsLog, kmsInvoked, gwLog, gitignore, ignRes, ignLog,
                   classified, exitCode>>

(***************************************************************************)
(* Repository Identity Resolver.  The output of `git remote -v` is a       *)
(* sequence of tokens; the pattern "host : org / project .git", with org   *)
(* any text free of "/" and project any text free of "/" and ".", is       *)
(* matched on it leftmost-first, as regexp.FindStringSubmatch does.        *)
(***************************************************************************)
ExpectedOrganization == "crispso"
ExpectedRepoHost     == "github.com"

tColon  == ":"
tSlash  == "/"
tDotGit == ".git"

\* The tokens a remote output is made of.
RemoteTokens ==
    {ExpectedRepoHost, tColon, tSlash, tDotGit, "CrispSO", "acme"}

\* strings.ToLower on a token.
ToLower(t) == IF t = "CrispSO" THEN "crispso" ELSE t

\* (?i)github.com matches this token.
MatchesHost(t) == ToLower(t) = ExpectedRepoHost

\* The tokens that hold a "/" (they end a run of [^/]).
HasSlash == {tSlash}
\* The tokens that hold a "/" or a "." (they end a run of [^/\.]).
HasSlashOrDot == {tSlash, tDotGit, ExpectedRepoHost}

\* The end of the longest run of tokens from position i on that are not in
\* Stop: the position of the first token in Stop, or Len(out) + 1.
RECURSIVE RunEnd(_, _, _)
RunEnd(out, i, Stop) ==
    IF i > Len(out) \/ out[i] \in Stop THEN i ELSE RunEnd(out, i + 1, Stop)

\* The match of the pattern that starts at position i, if there is one:
\* [ok, org, project].
MatchAt(out, i) ==
    LET none == [ok |-> FALSE, org |-> <<>>, project |-> <<>>]
    IN  IF ~(i + 1 <= Len(out) /\ MatchesHost(out[i]) /\ out[i + 1] = tColon)
        THEN none
        ELSE LET o == RunEnd(out, i + 2, HasSlash)
             IN  IF o > Len(out) THEN none
                 ELSE LET q == RunEnd(out, o + 1, HasSlashOrDot)
                      IN  IF q <= Len(out) /\ out[q] = tDotGit
                          THEN [ok |-> TRUE,
                                org |-> SubSeq(out, i + 2, o - 1),
                                project |-> SubSeq(out, o + 1, q - 1)]
                          ELSE none

\* re.FindStringSubmatch: the match with the leftmost start.
RECURSIVE FindStringSubmatch(_, _)
FindStringSubmatch(out, i) ==
    IF i > Len(out) THEN [ok |-> FALSE, org |-> <<>>, project |-> <<>>]
    ELSE IF MatchAt(out, i).ok THEN MatchAt(out, i)
    ELSE FindStringSubmatch(out, i + 1)

\* A comparison of the organization that minds the case.
OrgIsExpectedExact(org) == org = <<ExpectedOrganization>>

\* strings.ToLower(org) == options.ExpectedOrganization
OrgIsExpected(org) == Len(org) = 1 /\ ToLower(org[1]) = ExpectedOrganization

\* getProjectRepo on the result r = [err, out] of the remote query:
\* [err, project], err one of "nil", "cmd", "mismatch", "notfound".
getProjectRepo(r) ==
    IF r.err THEN [err |-> "cmd", project |-> <<>>]
    ELSE LET m == FindStringSubmatch(r.out, 1)
         IN  IF m.ok
             THEN IF OrgIsExpected(m.org)
                  THEN [err |-> "nil", project |-> m.project]
                  ELSE [err |-> "mismatch", project |-> <<>>]
             ELSE [err |-> "notfound", project |-> <<>>]

\* getKeyName without the fallback: whatever getProjectRepo returned.
getKeyNameNoFallback(root, r) == getProjectRepo(r).project

\* getKeyName: the project of the remote, else the base name of the root.
getKeyName(root, r) ==
    LET repo == getProjectRepo(r)
    IN  IF repo.err = "nil" THEN repo.project ELSE Base(root)


(***************************************************************************)
(* File Classifier.                                                        *)
(***************************************************************************)
ignoreFolders == {nGit, nNodeMod, nMongo}

IsIgnoredFolder(name) == name \in ignoreFolders

\* The text of a path: every name preceded by a separator.
RECURSIVE PathText(_)
PathText(p) ==
    IF p = <<>> THEN <<>> ELSE PathText(Front(p)) \o <<tSlash>> \o Last(p)

SecretYaml == {"secret.yaml", "secret.yml"}

\* The patterns, each a sequence of alternatives anchored at the end of the
\* text:  secret\.(yaml|yml)$   secret\.(yaml|yml)\.enc$   \.enc$
Pattern(re) ==
    CASE re = "unencrypted" -> <<SecretYaml>>
      [] re = "encrypted"   -> <<SecretYaml, {".enc"}>>
      [] re = "openAll"     -> <<{".enc"}>>

\* re.MatchString(text) for a pattern anchored at the end.
MatchString(re, text) ==
    LET pat == Pattern(re)
        off == Len(text) - Len(pat)
    IN  /\ off >= 0
        /\ \A k \in 1..Len(pat) : text[off + k] \in pat[k]

\* All names of the model in the order sort.Strings gives them.
SortedNames ==
    <<nGit, nGitignore, nA, nMongo, nMySecret, nNodeMod, nOther, nProj,
      nSecret, nSecretEnc, nSub, nWork, nXEnc>>

\* readDirNames: the names in a directory, sorted.
readDirNames(f, p) ==
    SelectSeq(SortedNames, LAMBDA n : Append(p, n) \in DOMAIN f)

\* The callback FindFiles gives to filepath.Walk, on an entry of kind k
\* reported with or without an error: what it returns and whether it adds
\* the path to the result.
walkFn(re, p, k, err) ==
    IF err THEN [ret |-> "err", add |-> FALSE]
    ELSE IF IsIgnoredFolder(Base(p)) THEN [ret |-> "SkipDir", add |-> FALSE]
    ELSE [ret |-> "nil", add |-> ~IsDirKind(k) /\ MatchString(re, PathText(p))]

\* filepath.walk on path p of filesystem f, acc being the result so far:
\* [res, ret].  walkNames runs the loop over the names of a directory.
RECURSIVE walk(_, _, _, _), walkNames(_, _, _, _, _, _)
walk(f, re, p, acc) ==
    LET k == f[p]
        r == walkFn(re, p, k, k = "baddir")
        acc1 == IF r.add THEN Append(acc, p) ELSE acc
    IN  IF ~IsDirKind(k) THEN [res |-> acc1, ret |-> r.ret]
        ELSE IF k = "baddir" \/ r.ret # "nil" THEN [res |-> acc1, ret |-> r.ret]
        ELSE walkNames(f, re, p, readDirNames(f, p), 1, acc1)

walkNames(f, re, p, names, i, acc) ==
    IF i > Len(names) THEN [res |-> acc, ret |-> "nil"]
    ELSE LET q == Append(p, names[i])
             r == walk(f, re, q, acc)
         IN  IF r.ret # "nil" /\ (~IsDirKind(f[q]) \/ r.ret # "SkipDir")
             THEN r
             ELSE walkNames(f, re, p, names, i + 1, r.res)

\* filepath.Walk(root, walkFn) inside FindFiles: the result list and the
\* error Walk returns ("nil" or "err").
Walk(f, re, root) ==
    IF root \notin DOMAIN f
    THEN [res |-> <<>>, ret |-> walkFn(re, root, "file", TRUE).ret]
    ELSE LET r == walk(f, re, root, <<>>)
         IN  [res |-> r.res, ret |-> IF r.ret = "SkipDir" THEN "nil" ELSE r.ret]

\* FindFiles: the collected paths; a walk error is printed, never returned.
FindFiles(f, root, re) == [res |-> Walk(f, re, root).res, err |-> "nil"]

FindUnencryptedFiles(f, root) == FindFiles(f, root, "unencrypted")

FindEncryptedFiles(f, all, root) ==
    FindFiles(f, root, IF all THEN "openAll" ELSE "encrypted")


(***************************************************************************)
(* Ignore-List Manager.                                                    *)
(***************************************************************************)
Max(S) == CHOOSE x \in S : \A y \in S : y <= x

\* Length of the longest common prefix of two paths.
Common(p, q) ==
    Max({k \in 0..Len(p) : k <= Len(q) /\ SubSeq(p, 1, k) = SubSeq(q, 1, k)})

\* filepath.Rel(base, targ) for an absolute targ: [err, ups, rest], the
\* number of ".." steps and the names that follow them.  A base that is not
\* absolute cannot be made relative to.
Rel(base, targ) ==
    IF ~IsAbs(base) THEN [err |-> TRUE, ups |-> 0, rest |-> <<>>]
    ELSE LET c == Common(base, targ)
         IN  [err |-> FALSE, ups |-> Len(base) - c,
              rest |-> SubSeq(targ, c + 1, Len(targ))]

\* The text of a relative path: "..", separators and names.
RECURSIVE RelText(_)
RelText(r) ==
    IF r.ups > 0
    THEN <<"..", tSlash>> \o RelText([r EXCEPT !.ups = r.ups - 1])
    ELSE IF r.rest = <<>> THEN <<>>
    ELSE IF Len(r.rest) = 1 THEN r.rest[1]
    ELSE r.rest[1] \o <<tSlash>> \o RelText([r EXCEPT !.rest = Tail(r.rest)])

\* The file a relative path names from base.
Resolve(base, r) == SubSeq(base, 1, Len(base) - r.ups) \o r.rest

\* A line of an ignore file that no file of the model matches.
StaleLine == <<"*.log">>

\* git: the top of the working tree that root lies in, [ok, top]: the
\* nearest directory from root upwards that holds a .git entry.
GitTop(root) ==
    LET c == {k \in 0..Len(root) : Exists(Append(SubSeq(root, 1, k), nGit))}
    IN  IF c = {} THEN [ok |-> FALSE, top |-> <<>>]
        ELSE [ok |-> TRUE, top |-> SubSeq(root, 1, Max(c))]

\* git answers queries about f from root: root is in a repository and f
\* lies in its working tree.
GitAnswers(root, f) == GitTop(root).ok /\ IsPrefix(GitTop(root).top, f)

\* A line of root/.gitignore excludes the file at relative path r: the file
\* lies under root, and the line is its path from root or, holding no
\* separator, its name.
LineMatches(line, r) ==
    /\ r.ups = 0
    /\ r.rest # <<>>
    /\ (line = RelText(r) \/ line = Last(r.rest))

\* An ignore rule of the repository matches f.
RuleMatches(root, f, gi) ==
    \/ f \in staleIgnored
    \/ \E i \in 1..Len(gi.lines) : LineMatches(gi.lines[i], Rel(root, f))

\* `git -C root ls-files --error-unmatch rel`: exit status 0.
GitLsFiles(root, r) ==
    LET f == Resolve(root, r) IN GitAnswers(root, f) /\ f \in tracked

\* `git -C root check-ignore f`: [err, out]; exit status 0 and the path as
\* given on stdout when a rule matches.  Files in the index are not subject
\* to ignore rules and are not reported.
GitCheckIgnore(root, f, gi) ==
    IF GitAnswers(root, f) /\ f \notin tracked /\ RuleMatches(root, f, gi)
    THEN [err |-> FALSE, out |-> f]
    ELSE [err |-> TRUE, out |-> EmptyPath]

\* isTracked that answers "not tracked" whatever git says.
isTrackedNever(root, r) == [val |-> FALSE, err |-> TRUE]

\* isTracked: [val, err].
isTracked(root, r) ==
    IF ~GitLsFiles(root, r) THEN [val |-> FALSE, err |-> TRUE]
    ELSE [val |-> TRUE, err |-> FALSE]

\* An isIgnored that reads a failed query as "ignored".
isIgnoredOnError(root, f, gi) ==
    LET g == GitCheckIgnore(root, f, gi)
    IN  IF g.err THEN [val |-> TRUE, err |-> TRUE]
        ELSE [val |-> g.out = f, err |-> FALSE]

\* isIgnored: [val, err].
isIgnored(root, f, gi) ==
    LET g == GitCheckIgnore(root, f, gi)
    IN  IF g.err THEN [val |-> FALSE, err |-> TRUE]
        ELSE [val |-> g.out = f, err |-> FALSE]

\* appendToFile(root/.gitignore, line): [err, gi].  The bytes line + "\n"
\* are added at the end of the file, which is created when absent; they
\* continue the last line when that one was left without a newline.  ok
\* tells whether the file could be opened and written.
appendToFile(gi, line, ok) ==
    IF ~ok THEN [err |-> TRUE, gi |-> gi]
    ELSE IF gi.open /\ gi.lines # <<>>
    THEN [err |-> FALSE,
          gi |-> [lines |-> Append(Front(gi.lines), Last(gi.lines) \o line),
                  open |-> FALSE]]
    ELSE [err |-> FALSE,
          gi |-> [lines |-> Append(gi.lines, line), open |-> FALSE]]

\* AddToIgnored(projectRoot, fileToIgnore): [err, branch, gi], err one of
\* "nil", "ErrFileAlreadyTracked", "rel", "io".
AddToIgnoredResult(root, f, gi, ok) ==
    LET r == Rel(root, f)
    IN  IF r.err THEN [err |-> "rel", branch |-> "rel", gi |-> gi]
        ELSE IF isTracked(root, r).val
        THEN [err |-> "ErrFileAlreadyTracked", branch |-> "tracked", gi |-> gi]
        ELSE IF isIgnored(root, f, gi).val
        THEN [err |-> "nil", branch |-> "ignored", gi |-> gi]
        ELSE LET a == appendToFile(gi, RelText(r), ok)
             IN  [err |-> IF a.err THEN "io" ELSE "nil",
                  branch |-> "append", gi |-> a.gi]


(***************************************************************************)
(* Crypto Command Gateway.                                                 *)
(***************************************************************************)
kmsVars == <<kop, nCall, nCreate, kres, kmsLog, kmsInvoked>>

\* A gateway that does not look at options.DryRun.
SkipKmsNever == FALSE

\* if options.DryRun { return nil }
SkipKms == dryRun

\* A pattern that is not anchored to ".enc": the last token is cut anyway.
TrimEncAny(p) ==
    IF p # <<>> /\ Last(p) # <<>>
    THEN Append(Front(p), Front(Last(p)))
    ELSE p

\* regexp `\.enc$` replaced by "" in the path.
TrimEnc(p) ==
    IF p # <<>> /\ Last(p) # <<>> /\ Last(Last(p)) = ".enc"
    THEN Append(Front(p), Front(Last(p)))
    ELSE p

\* What the service answers to an encrypt or decrypt invocation.  "notfound"
\* is a failure whose diagnostic holds "NOT_FOUND: "; "fail" is any other
\* failure.
CryptoAnswers ==
    {"ok", "fail"} \cup (IF nCreate < MaxCreates THEN {"notfound"} ELSE {})

\* A test of the diagnostic that every failure passes.
IsNotFoundAny(a) == a # "ok"

\* strings.Contains(stdErr, "NOT_FOUND: ")
IsNotFound(a) == a = "notfound"

\* One invocation of callKms: it returns, or goes on to create the key.
callKms ==
    /\ pc = "callKms"
    /\ IF SkipKms
       THEN /\ kres' = "nil"
            /\ pc' = "kmsRet"
            /\ UNCHANGED <<nCall, kmsInvoked, kmsLog>>
       ELSE \E a \in CryptoAnswers :
            /\ nCall' = nCall + 1
            /\ kmsInvoked' = TRUE
            /\ kmsLog' = Append(kmsLog, [op |-> kop, ans |-> a])
            /\ IF a = "ok" THEN kres' = "nil" /\ pc' = "kmsRet"
               ELSE IF IsNotFound(a) THEN kres' = kres /\ pc' = "createKey"
               ELSE kres' = "gcloudError" /\ pc' = "kmsRet"
    /\ UNCHANGED <<envVars, rp, visited, rootRes, projectRoot, key, repoRes, files, idx,
                   kop, nCreate, gwLog, gitignore, ignRes, ignLog, classified,
                   exitCode>>

\* createKey, called by callKms, which calls itself again when the key was
\* created.
createKey ==
    /\ pc = "createKey"
    /\ IF SkipKms
       THEN /\ pc' = "callKms"
            /\ UNCHANGED <<nCreate, kmsInvoked, kres, kmsLog>>
       ELSE \E a \in {"ok", "fail"} :
            /\ nCreate' = nCreate + 1
            /\ kmsInvoked' = TRUE
            /\ kmsLog' = Append(kmsLog, [op |-> "create", ans |-> a])
            /\ IF a = "ok"
               THEN kres' = kres /\ pc' = "callKms"
               ELSE kres' = "gcloudError" /\ pc' = "kmsRet"
    /\ UNCHANGED <<envVars, rp, visited, rootRes, projectRoot, key, repoRes, files, idx,
                   kop, nCall, gwLog, gitignore, ignRes, ignLog, classified,
                   exitCode>>

(***************************************************************************)
(* main.                                                                   *)
(***************************************************************************)
\* The directory a root path names on disk.
OnDisk(root) == Abs(root).path

\* os.Exit(code)
Exit(code) == pc' = "exit" /\ exitCode' = code

\* An ExitIfError that ends the process whatever the error value.
ExitIfErrorAlways(err) == TRUE

\* utils.ExitIfError(err) ends the process.
ExitIfError(err) == err # "nil"

\* A loop without the ErrFileAlreadyTracked case.
IsTrackedWarningNever(err) == FALSE

\* err == git.ErrFileAlreadyTracked: the warning and `continue`.
IsTrackedWarning(err) == err = "ErrFileAlreadyTracked"

\* if projectRoot == "" { projectRoot, _ = findProjectRoot(".") }
MainRoot ==
    /\ pc = "main"
    /\ IF rootOpt = EmptyPath
       THEN /\ pc' = "findRoot"
            /\ rp' = DotPath
            /\ UNCHANGED projectRoot
       ELSE /\ pc' = "key"
            /\ projectRoot' = rootOpt
            /\ UNCHANGED rp
    /\ UNCHANGED <<envVars, visited, rootRes, key, repoRes, files, idx, kmsVars, gwLog,
                   gitignore, ignRes, ignLog, classified, exitCode>>

\* The assignment of findProjectRoot's result; its error is dropped.
MainTakeRoot ==
    /\ pc = "rootDone"
    /\ projectRoot' = rootRes.path
    /\ pc' = "key"
    /\ UNCHANGED <<envVars, rp, visited, rootRes, key, repoRes, files, idx, kmsVars,
                   gwLog, gitignore, ignRes, ignLog, classified, exitCode>>

\* if key == "" { key = getKeyName(projectRoot) }
MainKey ==
    /\ pc = "key"
    /\ key' = IF keyOpt = <<>> THEN getKeyName(projectRoot, remote) ELSE keyOpt
    /\ repoRes' = IF keyOpt = <<>> THEN getProjectRepo(remote) ELSE repoRes
    /\ pc' = "dispatch"
    /\ UNCHANGED <<envVars, rp, visited, rootRes, projectRoot, files, idx,
                   kmsVars, gwLog, gitignore, ignRes, ignLog, classified,
                   exitCode>>

\* The branch on options.Cmd, with the classifier run when no file is given.
MainDispatch ==
    /\ pc = "dispatch"
    /\ \/ /\ cmd = "seal"
          /\ files' = IF files = <<>>
                      THEN FindUnencryptedFiles(fs, OnDisk(projectRoot)).res
                      ELSE files
          /\ classified' = IF files = <<>> THEN classified + 1 ELSE classified
          /\ pc' = "sealLoop"
          /\ UNCHANGED exitCode
       \/ /\ cmd = "open"
          /\ files' = IF files = <<>>
                      THEN FindEncryptedFiles(fs, openAll,
                                              OnDisk(projectRoot)).res
                      ELSE files
          /\ classified' = IF files = <<>> THEN classified + 1 ELSE classified
          /\ pc' = "openLoop"
          /\ UNCHANGED exitCode
       \/ /\ cmd \notin {"seal", "open"}
          /\ Exit(1)
          /\ UNCHANGED <<files, classified>>
    /\ UNCHANGED <<envVars, rp, visited, rootRes, projectRoot, key, repoRes, idx,
                   kmsVars, gwLog, gitignore, ignRes, ignLog>>

\* The head of the seal loop: os.Exit(0) after the last file, else
\* kms.Encrypt(key, path), which enters callKms.
SealLoop ==
    /\ pc = "sealLoop"
    /\ IF idx > Len(files)
       THEN /\ Exit(0)
            /\ UNCHANGED <<kop, nCall, nCreate, kmsLog, gwLog>>
       ELSE /\ kop' = "encrypt"
            /\ nCall' = 0
            /\ nCreate' = 0
            /\ kmsLog' = <<>>
            /\ gwLog' = Append(gwLog, idx)
            /\ pc' = "callKms"
            /\ UNCHANGED exitCode
    /\ UNCHANGED <<envVars, rp, visited, rootRes, projectRoot, key, repoRes, files, idx,
                   kres, kmsInvoked, gitignore, ignRes, ignLog, classified>>

\* utils.ExitIfError(kms.Encrypt(key, path))
SealAfterEncrypt ==
    /\ pc = "kmsRet"
    /\ cmd = "seal"
    /\ IF ExitIfError(kres)
       THEN Exit(1)
       ELSE pc' = "addToIgnored" /\ UNCHANGED exitCode
    /\ UNCHANGED <<envVars, rp, visited, rootRes, projectRoot, key, repoRes, files, idx,
                   kmsVars, gwLog, gitignore, ignRes, ignLog, classified>>

\* err := git.AddToIgnored(projectRoot, path)
AddToIgnored ==
    /\ pc = "addToIgnored"
    /\ \E ok \in BOOLEAN :
          LET r == AddToIgnoredResult(projectRoot, files[idx], gitignore, ok)
          IN  /\ gitignore' = r.gi
              /\ ignRes' = r.err
              /\ ignLog' = Append(ignLog, [idx |-> idx, file |-> files[idx],
                                           branch |-> r.branch, err |-> r.err])
    /\ pc' = "ignoreRet"
    /\ UNCHANGED <<envVars, rp, visited, rootRes, projectRoot, key, repoRes, files, idx,
                   kmsVars, gwLog, classified, exitCode>>

\* The warning and `continue` on ErrFileAlreadyTracked, else
\* utils.ExitIfError(err), and the next file.
SealAfterIgnore ==
    /\ pc = "ignoreRet"
    /\ IF IsTrackedWarning(ignRes) \/ ~ExitIfError(ignRes)
       THEN /\ idx' = idx + 1
            /\ pc' = "sealLoop"
            /\ UNCHANGED exitCode
       ELSE /\ Exit(1)
            /\ UNCHANGED idx
    /\ UNCHANGED <<envVars, rp, visited, rootRes, projectRoot, key, repoRes, files,
                   kmsVars, gwLog, gitignore, ignRes, ignLog, classified>>

\* The head of the open loop: os.Exit(0) after the last file, else
\* kms.Decrypt(key, path): a path that does not end in .enc exits the
\* process, any other enters callKms.
OpenLoop ==
    /\ pc = "openLoop"
    /\ IF idx > Len(files)
       THEN /\ Exit(0)
            /\ UNCHANGED <<kop, nCall, nCreate, kmsLog, gwLog>>
       ELSE /\ gwLog' = Append(gwLog, idx)
            /\ kop' = "decrypt"
            /\ nCall' = 0
            /\ nCreate' = 0
            /\ kmsLog' = <<>>
            /\ IF TrimEnc(files[idx]) = files[idx]
               THEN Exit(1)
               ELSE pc' = "callKms" /\ UNCHANGED exitCode
    /\ UNCHANGED <<envVars, rp, visited, rootRes, projectRoot, key, repoRes, files, idx,
                   kres, kmsInvoked, gitignore, ignRes, ignLog, classified>>

\* utils.ExitIfError(err) after kms.Decrypt, and the next file.
OpenAfterDecrypt ==
    /\ pc = "kmsRet"
    /\ cmd = "open"
    /\ IF ExitIfError(kres)
       THEN Exit(1) /\ UNCHANGED idx
       ELSE idx' = idx + 1 /\ pc' = "openLoop" /\ UNCHANGED exitCode
    /\ UNCHANGED <<envVars, rp, visited, rootRes, projectRoot, key, repoRes, files,
                   kmsVars, gwLog, gitignore, ignRes, ignLog, classified>>


(***************************************************************************)
(* Initial states: one run of the tool.                                    *)
(***************************************************************************)
\* All sequences over S of length at most n.
SeqsUpTo(S, n) == UNION {[1..k -> S] : k \in 0..n}

ChainDirs == {Dir(k) : k \in 0..MaxDepth}

\* The files of the runs: a plaintext in the working directory, one in its
\* parent, a ciphertext in the working directory.
P1 == Append(Dir(MaxDepth), nSecret)
P2 == Append(Dir(MaxDepth - 1), nSecret)
E1 == Append(Dir(MaxDepth), nSecretEnc)

\* A filesystem: the directories D and the files F.
FsOf(D, F) == [p \in D \cup F |-> IF p \in D THEN "dir" ELSE "file"]

\* The filesystems of the runs: the chain of the working directory, the
\* files, a dependency directory, and .git directories at the levels G.
RunFs(G) ==
    FsOf(ChainDirs \cup {Append(Dir(MaxDepth), nNodeMod)}
                   \cup {Append(Dir(g), nGit) : g \in G},
         {P1, P2, E1, Append(Append(Dir(MaxDepth), nNodeMod), nSecret)})

GoodRemote ==
    [err |-> FALSE,
     out |-> <<ExpectedRepoHost, tColon, "CrispSO", tSlash, "acme", tDotGit>>]
NoRemote == [err |-> TRUE, out |-> <<>>]

NoRootRes == [path |-> EmptyPath, err |-> "nil"]
NoRepoRes == [err |-> "none", project |-> <<>>]

\* The state of the run before main's first statement.
RunStart ==
    /\ pc = "main"
    /\ rp = EmptyPath
    /\ visited = <<>>
    /\ rootRes = NoRootRes
    /\ projectRoot = rootOpt
    /\ key = keyOpt
    /\ repoRes = NoRepoRes
    /\ idx = 1
    /\ kop = "none"
    /\ nCall = 0
    /\ nCreate = 0
    /\ kres = "nil"
    /\ kmsLog = <<>>
    /\ kmsInvoked = FALSE
    /\ gwLog = <<>>
    /\ ignRes = "nil"
    /\ ignLog = <<>>
    /\ classified = 0
    /\ exitCode = NoExit

\* The ignore-list file before the run: absent or empty, holding a rule and
\* ending in a newline, or holding a rule whose line was left unterminated.
IgnoreFiles ==
    {[lines |-> <<>>, open |-> FALSE],
     [lines |-> <<StaleLine>>, open |-> FALSE],
     [lines |-> <<StaleLine>>, open |-> TRUE]}

\* The filesystems a run is started in.  Without --root the .git directory
\* is nowhere or at one level of the chain; with a relative --root no git
\* query is reached; with --root /work the repository is absent or there.
RunFilesystems ==
    CASE rootOpt = EmptyPath ->
             {RunFs(G) : G \in {{}} \cup {{g} : g \in 0..MaxDepth}}
      [] rootOpt = DotPath -> {RunFs({MaxDepth})}
      [] OTHER -> {RunFs({}), RunFs({1})}

\* The repository state matters to seal runs only: no other run asks git
\* about a file.
Init ==
    /\ cmd \in {"seal", "open", "purge"}
    /\ dryRun \in BOOLEAN
    /\ openAll \in (IF cmd = "open" THEN BOOLEAN ELSE {FALSE})
    /\ rootOpt \in {EmptyPath, DotPath, Dir(1)}
    /\ keyOpt \in {<<>>, <<"mykey">>}
    /\ cwd = Dir(MaxDepth)
    /\ cwdOk = TRUE
    /\ fs \in RunFilesystems
    /\ tracked \in (IF cmd = "seal" THEN SUBSET {P1, P2} ELSE {{}})
    /\ staleIgnored \in (IF cmd = "seal" THEN SUBSET {P1} ELSE {{}})
    /\ remote \in (IF keyOpt = <<>> THEN {GoodRemote} ELSE {NoRemote})
    /\ files \in CASE cmd = "seal" -> SeqsUpTo({P1, P2}, MaxFiles)
                   [] cmd = "open" -> SeqsUpTo({P1, E1}, MaxFiles)
                   [] OTHER -> {<<>>}
    /\ gitignore \in (IF cmd = "seal" THEN IgnoreFiles
                      ELSE {[lines |-> <<>>, open |-> FALSE]})
    /\ RunStart

Next ==
    \/ MainRoot
    \/ findProjectRoot
    \/ MainTakeRoot
    \/ MainKey
    \/ MainDispatch
    \/ SealLoop
    \/ callKms
    \/ createKey
    \/ SealAfterEncrypt
    \/ AddToIgnored
    \/ SealAfterIgnore
    \/ OpenLoop
    \/ OpenAfterDecrypt

Spec == Init /\ [][Next]_vars


(***************************************************************************)
(* The Project Root Resolver on every working directory of the chain and   *)
(* every placement of .git entries (absent, a file, a directory).          *)
(***************************************************************************)
GitKinds == {"none", "file", "dir"}

RootFs(kinds) ==
    FsOf(ChainDirs \cup {Append(Dir(k), nGit) : k \in {j \in 0..MaxDepth : kinds[j] = "dir"}},
         {Append(Dir(k), nGit) : k \in {j \in 0..MaxDepth : kinds[j] = "file"}})

InitRoot ==
    /\ cmd = "seal"
    /\ dryRun = FALSE
    /\ openAll = FALSE
    /\ rootOpt = EmptyPath
    /\ keyOpt = <<>>
    /\ cwd \in ChainDirs
    /\ cwdOk \in BOOLEAN
    /\ fs \in {RootFs(kinds) : kinds \in [0..MaxDepth -> GitKinds]}
    /\ tracked = {}
    /\ staleIgnored = {}
    /\ remote = NoRemote
    /\ files = <<>>
    /\ gitignore = [lines |-> <<>>, open |-> FALSE]
    /\ RunStart

NextRoot ==
    \/ MainRoot
    \/ findProjectRoot
    \/ MainTakeRoot

SpecRoot == InitRoot /\ [][NextRoot]_vars

\* The process is sequential and runs on: a step that is possible is taken.
SpecRootLive == SpecRoot /\ WF_vars(NextRoot)

(***************************************************************************)
(* The Repository Identity Resolver on every output of the remote query of *)
(* at most MaxRemoteLen tokens.                                            *)
(***************************************************************************)
RemoteResults ==
    {NoRemote} \cup
    {[err |-> FALSE, out |-> o] : o \in SeqsUpTo(RemoteTokens, MaxRemoteLen)}

InitRepo ==
    /\ cmd = "seal"
    /\ dryRun = FALSE
    /\ openAll = FALSE
    /\ rootOpt \in {Dir(0), Dir(MaxDepth)}
    /\ keyOpt = <<>>
    /\ cwd = Dir(MaxDepth)
    /\ cwdOk = TRUE
    /\ fs = RunFs({MaxDepth})
    /\ tracked = {}
    /\ staleIgnored = {}
    /\ remote \in RemoteResults
    /\ files = <<>>
    /\ gitignore = [lines |-> <<>>, open |-> FALSE]
    /\ RunStart

NextRepo ==
    \/ MainRoot
    \/ MainKey

SpecRepo == InitRepo /\ [][NextRepo]_vars

(***************************************************************************)
(* The Repository Identity Resolver on the outputs of a repository with up *)
(* to MaxRemotes remotes, one line each: URLs of the expected host in the  *)
(* scp form with several organizations and projects, a URL cut short       *)
(* before the "/", and a URL with "/" in place of ":".                     *)
(***************************************************************************)
RemoteLine(org, proj) ==
    <<ExpectedRepoHost, tColon>> \o org \o <<tSlash>> \o proj \o <<tDotGit>>

RemoteLines ==
    {RemoteLine(org, proj) :
        org \in {<<>>, <<"CrispSO">>, <<"crispso">>, <<"acme">>},
        proj \in {<<>>, <<"acme">>}}
    \cup {<<ExpectedRepoHost, tColon, "acme">>,
          <<ExpectedRepoHost, tSlash, "CrispSO", tSlash, "acme", tDotGit>>}

\* The lines of an output, one after the other.
RECURSIVE Concat(_)
Concat(ls) == IF ls = <<>> THEN <<>> ELSE Head(ls) \o Concat(Tail(ls))

InitRemotes ==
    /\ cmd = "seal"
    /\ dryRun = FALSE
    /\ openAll = FALSE
    /\ rootOpt = Dir(MaxDepth)
    /\ keyOpt = <<>>
    /\ cwd = Dir(MaxDepth)
    /\ cwdOk = TRUE
    /\ fs = RunFs({MaxDepth})
    /\ tracked = {}
    /\ staleIgnored = {}
    /\ remote \in {[err |-> FALSE, out |-> Concat(ls)] :
                      ls \in SeqsUpTo(RemoteLines, MaxRemotes)}
    /\ files = <<>>
    /\ gitignore = [lines |-> <<>>, open |-> FALSE]
    /\ RunStart

SpecRemotes == InitRemotes /\ [][NextRepo]_vars

(***************************************************************************)
(* The File Classifier on every tree of a family: below the root, entries  *)
(* named .git, a and node_modules that are absent, files or directories,   *)
(* files with the names the patterns are about, in each directory a        *)
(* plaintext secret and a nested node_modules entry, and a directory sub   *)
(* that cannot be read.                                                    *)
(***************************************************************************)
TreeRoot == Dir(MaxDepth)

\* What a directory of the family holds: a secret.yaml or not, and a
\* node_modules entry (a directory of that name holds a secret.yaml).
DirContents == [s : BOOLEAN, nm : GitKinds]

ContentDirs(d, c) == IF c.nm = "dir" THEN {Append(d, nNodeMod)} ELSE {}
ContentFiles(d, c) ==
    (IF c.s THEN {Append(d, nSecret)} ELSE {})
    \cup (IF c.nm = "file" THEN {Append(d, nNodeMod)} ELSE {})
    \cup (IF c.nm = "dir" THEN {Append(Append(d, nNodeMod), nSecret)} ELSE {})

DirNames  == {nGit, nA, nNodeMod}
FileNames == {nSecretEnc, nXEnc}

\* A choice for the tree: the kind and contents of each entry that may be a
\* directory, the kind of secret.yaml, the files present, and whether the
\* unreadable directory is there.
TreeChoices ==
    {c \in [k : [DirNames -> GitKinds], c : [DirNames -> DirContents],
            sk : GitKinds, f : SUBSET FileNames, sub : {"none", "baddir"}] :
        \A n \in DirNames :
            c.k[n] # "dir" => c.c[n] = [s |-> FALSE, nm |-> "none"]}

TreeOf(c) ==
    LET top(n) == Append(TreeRoot, n)
        dirs == {top(n) : n \in {m \in DirNames : c.k[m] = "dir"}}
        bad == IF c.sub = "baddir" THEN {top(nSub)} ELSE {}
    IN  [p \in bad |-> "baddir"] @@
        FsOf(ChainDirs \cup dirs
               \cup UNION {ContentDirs(d, c.c[Last(d)]) : d \in dirs}
               \cup (IF c.sk = "dir" THEN {top(nSecret)} ELSE {}),
             {top(n) : n \in {m \in DirNames : c.k[m] = "file"}}
               \cup UNION {ContentFiles(d, c.c[Last(d)]) : d \in dirs}
               \cup (IF c.sk = "file" THEN {top(nSecret)} ELSE {})
               \cup {top(n) : n \in c.f})

InitFind ==
    /\ cmd \in {"seal", "open"}
    /\ dryRun = TRUE
    /\ openAll \in (IF cmd = "open" THEN BOOLEAN ELSE {FALSE})
    /\ rootOpt = TreeRoot
    /\ keyOpt = <<"mykey">>
    /\ cwd = Dir(MaxDepth)
    /\ cwdOk = TRUE
    /\ fs \in {TreeOf(c) : c \in TreeChoices}
    /\ tracked = {}
    /\ staleIgnored = {}
    /\ remote = NoRemote
    /\ files = <<>>
    /\ gitignore = [lines |-> <<>>, open |-> FALSE]
    /\ RunStart

NextFind ==
    \/ MainRoot
    \/ MainKey
    \/ MainDispatch

SpecFind == InitFind /\ [][NextFind]_vars


(***************************************************************************)
(* Claims.                                                                 *)
(***************************************************************************)
\* The number of lines of the ignore-list file that hold exactly the path
\* of f relative to ProjectRoot.
LinesFor(f) ==
    Cardinality({i \in 1..Len(gitignore.lines) :
                    gitignore.lines[i] = RelText(Rel(projectRoot, f))})

\* The run is `seal f f ...`: consecutive AddToIgnored calls for f alone.
SealsOnly(f) ==
    /\ cmd = "seal"
    /\ pc \notin {"main", "findRoot", "rootDone", "key", "dispatch"}
    /\ files # <<>>
    /\ \A i \in 1..Len(files) : files[i] = f

\* C1 (as claimed): starting from a file that is neither tracked nor matched
\* by an ignore rule, once the first AddToIgnored call for it has succeeded
\* the ignore-list file holds exactly one line for it, that call took the
\* append branch, and every later call is a no-op that returns success.
C1_Idempotent ==
    \A f \in {P1, P2} :
        (/\ SealsOnly(f)
         /\ f \notin tracked
         /\ f \notin staleIgnored
         /\ ignLog # <<>>
         /\ ignLog[1].err = "nil")
        => /\ ignLog[1].branch = "append"
           /\ LinesFor(f) = 1
           /\ \A j \in 2..Len(ignLog) :
                 ignLog[j].branch = "ignored" /\ ignLog[j].err = "nil"

C3_RetryBound == nCreate <= 1 /\ nCall <= 2

\* The path names a ciphertext: its text ends in ".enc".
EndsWithEnc(p) == p # <<>> /\ Last(p) # <<>> /\ Last(Last(p)) = ".enc"

\* C4 (as claimed): with dry-run enabled no external key-management process
\* is started and every Encrypt and Decrypt reports success.
C4_DryRunSucceeds ==
    dryRun => /\ ~kmsInvoked
              /\ kres = "nil"
              /\ ~(cmd = "open" /\ pc = "exit" /\ exitCode = 1)

\* C4 (amended): with dry-run enabled no external key-management process is
\* started, every Encrypt and Decrypt that returns reports success, and an
\* open run ends with exit code 1 only in Decrypt of a path that does not
\* end in .enc.
C4_DryRunPure ==
    dryRun => /\ ~kmsInvoked
              /\ nCall = 0
              /\ nCreate = 0
              /\ kres = "nil"
              /\ (cmd = "open" /\ pc = "exit" /\ exitCode = 1)
                 => (gwLog # <<>> /\ ~EndsWithEnc(files[Last(gwLog)]))

\* A dry run that opened a ciphertext and ended with exit code 0.
C4_Witness ==
    /\ dryRun
    /\ cmd = "open"
    /\ pc = "exit"
    /\ exitCode = 0
    /\ gwLog # <<>>
    /\ \A i \in 1..Len(files) : EndsWithEnc(files[i])


\* The levels of the chain, from the filesystem root down to the working
\* directory, whose directory holds a .git directory.
GitLevels ==
    {k \in 0..Len(cwd) :
        LET g == Append(SubSeq(cwd, 1, k), nGit)
        IN  g \in DOMAIN fs /\ fs[g] = "dir"}

\* C5 (as claimed): findProjectRoot returns the nearest directory, from the
\* working directory up to and including the filesystem root, that holds a
\* .git directory, and the "not in project" error only when there is none.
C5_NearestRoot ==
    (pc = "rootDone" /\ cwdOk)
    => IF GitLevels # {}
       THEN rootRes = [path |-> SubSeq(cwd, 1, Max(GitLevels)), err |-> "nil"]
       ELSE rootRes.err = "notInProject"

\* C6 (as claimed): without --root and with no .git directory from the
\* working directory up to the filesystem root, the run never enters the
\* gateway, the classifier or the ignore-list manager, and ends with exit
\* code 1.
C6_NoRootIsFatal ==
    (rootOpt = EmptyPath /\ GitLevels = {})
    => /\ gwLog = <<>>
       /\ classified = 0
       /\ ignLog = <<>>
       /\ (pc = "exit" => exitCode = 1)

\* The pattern occurs in out with the host at i, the "/" after the
\* organization at o and the ".git" after the project at q.
IsMatch(out, i, o, q) ==
    /\ 1 <= i /\ i + 1 < o /\ o < q /\ q <= Len(out)
    /\ ToLower(out[i]) = ExpectedRepoHost
    /\ out[i + 1] = tColon
    /\ \A k \in (i + 2)..(o - 1) : out[k] # tSlash
    /\ out[o] = tSlash
    /\ \A k \in (o + 1)..(q - 1) : out[k] \notin {tSlash, tDotGit, ExpectedRepoHost}
    /\ out[q] = tDotGit

Matches(out) ==
    {m \in (1..Len(out)) \X (1..Len(out)) \X (1..Len(out)) :
        IsMatch(out, m[1], m[2], m[3])}

\* The match regexp reports: the one that starts first.
FirstMatch(out) ==
    CHOOSE m \in Matches(out) : \A n \in Matches(out) : m[1] <= n[1]

NameMatches(re, name) == MatchString(re, name)

Category ==
    IF cmd = "seal" THEN "unencrypted"
    ELSE IF openAll THEN "openAll" ELSE "encrypted"

\* The regular files below ProjectRoot whose name matches the category and
\* that lie in no directory named .git, node_modules or mongo-data.
Classified(re) ==
    {p \in DOMAIN fs :
        /\ fs[p] = "file"
        /\ IsPrefix(projectRoot, p)
        /\ Len(p) > Len(projectRoot)
        /\ NameMatches(re, Last(p))
        /\ \A k \in (Len(projectRoot) + 1)..(Len(p) - 1) :
              p[k] \notin ignoreFolders}

\* The directories of the tree that cannot be read.
BadDirs == {p \in DOMAIN fs : fs[p] = "baddir"}

\* C8 (as claimed): on a tree that can be read, the classifier returns
\* exactly the regular files whose name matches the category and that have
\* no ancestor directory named .git, node_modules or mongo-data.
C8_ClassifierExact ==
    (pc \in {"sealLoop", "openLoop"} /\ classified = 1 /\ BadDirs = {})
    => {files[i] : i \in 1..Len(files)} = Classified(Category)

\* A failure that ends a seal run: an Encrypt error, or an AddToIgnored
\* error other than ErrFileAlreadyTracked.
FatalAt(j) ==
    /\ j \in 1..Len(ignLog)
    /\ ignLog[j].err \notin {"nil", "ErrFileAlreadyTracked"}

\* C9: in a seal run the files are processed in sequence, Encrypt before
\* AddToIgnored; after an Encrypt error or an AddToIgnored error other than
\* ErrFileAlreadyTracked no later file is touched and the run ends with exit
\* code 1; ErrFileAlreadyTracked ends nothing: a run ends with exit code 1
\* only after such a failure, and with exit code 0 only after every file
\* was processed.
C9_BatchAbort ==
    cmd = "seal"
    => /\ gwLog = [i \in 1..Len(gwLog) |-> i]
       /\ Len(ignLog) <= Len(gwLog)
       /\ Len(gwLog) <= Len(ignLog) + 1
       /\ \A j \in 1..Len(ignLog) : ignLog[j].idx = j
       /\ \A j \in 1..Len(ignLog) :
             FatalAt(j) => /\ j = Len(ignLog)
                           /\ Len(gwLog) = j
                           /\ pc \in {"ignoreRet", "exit"}
                           /\ (pc = "exit" => exitCode = 1)
       /\ kres # "nil" => /\ Len(ignLog) = Len(gwLog) - 1
                          /\ pc \in {"kmsRet", "exit"}
                          /\ (pc = "exit" => exitCode = 1)
       /\ (pc = "exit" /\ exitCode = 1)
          => (kres # "nil" \/ FatalAt(Len(ignLog)))
       /\ (pc = "exit" /\ exitCode = 0)
          => (Len(gwLog) = Len(files) /\ Len(ignLog) = Len(files))

\* A seal run of two files that ended with exit code 0 although the first
\* file was reported as tracked.
C9_Witness ==
    /\ cmd = "seal"
    /\ pc = "exit"
    /\ exitCode = 0
    /\ Len(ignLog) = 2
    /\ ignLog[1].err = "ErrFileAlreadyTracked"

\* C10: Decrypt of a path that does not end in .enc ends the run with exit
\* code 1 and starts no external key-management process.
C10_DecryptFailFast ==
    (cmd = "open" /\ gwLog # <<>> /\ ~EndsWithEnc(files[Last(gwLog)]))
    => /\ pc = "exit"
       /\ exitCode = 1
       /\ nCall = 0
       /\ nCreate = 0

\* An open run that decrypted a ciphertext through the service and then
\* ended in Decrypt of a path without the suffix.
C10_Witness ==
    /\ cmd = "open"
    /\ ~dryRun
    /\ kmsInvoked
    /\ Len(gwLog) = 2
    /\ ~EndsWithEnc(files[2])
    /\ pc = "exit"
    /\ exitCode = 1


\* C11 (as claimed): when a seal run has ended with exit code 0, every file
\* of the batch is matched by an ignore rule of the repository, or is in the
\* index and was reported as tracked.
C11_PlaintextProtected ==
    (cmd = "seal" /\ pc = "exit" /\ exitCode = 0)
    => \A j \in 1..Len(ignLog) :
          LET f == ignLog[j].file
          IN  \/ RuleMatches(projectRoot, f, gitignore)
              \/ (f \in tracked /\ ignLog[j].err = "ErrFileAlreadyTracked")


\* The chain from directory d up to the filesystem root, d first.
ChainUp(d) == [i \in 1..(Len(d) + 1) |-> SubSeq(d, 1, Len(d) + 1 - i)]

\* C12: in a tree with no .git directory from the working directory up to
\* the filesystem root, findProjectRoot never visits a directory twice and
\* its search ends: it returns an error, and when the working directory is
\* known that error is "not in project", reported at the filesystem root
\* after one visit of every directory of the chain.
C12_RootSearchTerminates ==
    /\ [](GitLevels = {}
          => \A i, j \in 1..Len(visited) : visited[i] = visited[j] => i = j)
    /\ (pc = "findRoot" /\ GitLevels = {})
       ~> (/\ pc = "rootDone"
           /\ rootRes.err # "nil"
           /\ cwdOk => /\ rootRes = [path |-> <<>>, err |-> "notInProject"]
                       /\ visited = ChainUp(cwd))

\* The search from the deepest working directory, past a .git that is a
\* regular file, ended at the filesystem root.
C12_Witness ==
    /\ pc = "rootDone"
    /\ GitLevels = {}
    /\ cwd = Dir(MaxDepth)
    /\ Exists(Append(cwd, nGit))
    /\ rootRes.err = "notInProject"
    /\ Len(visited) = MaxDepth + 1


\* The text of a name is the empty string.
IsEmptyText(n) == \A i \in 1..Len(n) : n[i] = ""

\* C13 (as claimed): without --key, the key name main hands to the gateway
\* is not the empty string.
C13_KeyNotEmpty ==
    (pc = "dispatch" /\ keyOpt = <<>>) => ~IsEmptyText(key)


\* The organization and the project of a match.
OrgOf(out, m) == SubSeq(out, m[1] + 2, m[2] - 1)
ProjectOf(out, m) == SubSeq(out, m[2] + 1, m[3] - 1)

\* The organization is the expected one, whatever the case of its letters.
IsExpectedOrg(org) == org \in {<<"CrispSO">>, <<"crispso">>}

\* getKeyName has called getProjectRepo on an output of the remote query.
RepoResolved == pc = "dispatch" /\ keyOpt = <<>> /\ ~remote.err

\* C14 (as claimed): getProjectRepo returns the project of a match when the
\* output contains a match whose organization is the expected one, the
\* mismatch error when it contains matches but none with that organization,
\* and the "not found" error when it contains no match.
C14_AnyMatchDecides ==
    RepoResolved
    => LET good == {m \in Matches(remote.out) :
                       IsExpectedOrg(OrgOf(remote.out, m))}
       IN  IF good # {}
           THEN /\ repoRes.err = "nil"
                /\ \E m \in good : repoRes.project = ProjectOf(remote.out, m)
           ELSE IF Matches(remote.out) # {}
           THEN repoRes.err = "mismatch"
           ELSE repoRes.err = "notfound"

\* C14 (amended): the match that starts first in the output decides:
\* getProjectRepo returns its project when its organization is the expected
\* one ignoring case, the mismatch error when it is another, and the "not
\* found" error when the output holds no match.
C14_FirstMatchDecides ==
    RepoResolved
    => IF Matches(remote.out) = {}
       THEN repoRes = [err |-> "notfound", project |-> <<>>]
       ELSE LET m == FirstMatch(remote.out)
            IN  IF IsExpectedOrg(OrgOf(remote.out, m))
                THEN repoRes = [err |-> "nil",
                                project |-> ProjectOf(remote.out, m)]
                ELSE repoRes = [err |-> "mismatch", project |-> <<>>]

\* Two remotes, the first of another organization and the second of the
\* expected one: the mismatch error was returned.
C14_Witness ==
    /\ RepoResolved
    /\ \E m, n \in Matches(remote.out) :
          /\ m[1] < n[1]
          /\ OrgOf(remote.out, m) = <<"acme">>
          /\ OrgOf(remote.out, n) = <<"CrispSO">>
    /\ repoRes.err = "mismatch"


\* No regular file of the tree bears the name of a pruned directory.
NoFileNamedAsPruned ==
    \A p \in DOMAIN fs : fs[p] = "file" => Last(p) \notin ignoreFolders

\* C15 (as claimed): when the walk hits a directory that cannot be read,
\* only the subtree of that directory is lost: the classifier returns the
\* matching files outside it, those that come later in the walk included.
C15_ErrorContained ==
    (/\ pc \in {"sealLoop", "openLoop"}
     /\ classified = 1
     /\ BadDirs # {}
     /\ NoFileNamedAsPruned)
    => {files[i] : i \in 1..Len(files)}
       = {p \in Classified(Category) :
             \A b \in BadDirs : ~IsPrefix(b, p)}


\* The event is an invocation of the crypto operation of the call.
IsCrypto(e) == e.op \in {"encrypt", "decrypt"}

\* C16: in an Encrypt or Decrypt call, the first invocation is the crypto
\* operation of the call; a key creation comes only directly after a crypto
\* invocation that answered "not found", and such an answer is followed by
\* nothing else; the crypto operation is invoked again only directly after
\* a key creation that succeeded; a crypto failure of another kind and a
\* failed key creation are the last invocation of the call, which returns a
\* gateway error; a crypto success is the last invocation of the call, which
\* returns success.
C16_OnlyNotFoundCreates ==
    LET n == Len(kmsLog)
    IN  /\ \A i \in 1..n :
              /\ IsCrypto(kmsLog[i]) => kmsLog[i].op = kop
              /\ kmsLog[i].op = "create"
                 => /\ i > 1
                    /\ IsCrypto(kmsLog[i - 1])
                    /\ kmsLog[i - 1].ans = "notfound"
              /\ IsCrypto(kmsLog[i])
                 => \/ i = 1
                    \/ kmsLog[i - 1] = [op |-> "create", ans |-> "ok"]
              /\ kmsLog[i].ans = "fail"
                 => /\ i = n
                    /\ pc \in {"kmsRet", "exit"}
                    /\ kres = "gcloudError"
              /\ (IsCrypto(kmsLog[i]) /\ kmsLog[i].ans = "ok")
                 => /\ i = n
                    /\ kres = "nil"
        /\ (n > 0 /\ kmsLog[n].ans = "notfound") => pc = "createKey"
        /\ (n > 0 /\ kmsLog[n] = [op |-> "create", ans |-> "ok"])
           => pc = "callKms"
        /\ kres = "gcloudError" => (n > 0 /\ kmsLog[n].ans = "fail")

\* A call that created the key after "not found", retried, and ended in a
\* failure of another kind.
C16_Witness ==
    /\ kmsLog = <<[op |-> "decrypt", ans |-> "notfound"],
                  [op |-> "create", ans |-> "ok"],
                  [op |-> "decrypt", ans |-> "fail"]>>
    /\ kres = "gcloudError"
    /\ pc = "exit"
    /\ exitCode = 1


\* C17 (as claimed): a step changes the ignore-list file only when it is an
\* AddToIgnored call that takes the append branch and succeeds, and then the
\* lines of the file are those it had, unchanged, followed by one new line
\* that holds the path of the file relative to ProjectRoot and ends in a
\* newline.
C17_AppendOnlyFrame ==
    [][IF ignLog' # ignLog
          /\ Last(ignLog').branch = "append"
          /\ Last(ignLog').err = "nil"
       THEN gitignore' =
                [lines |-> Append(gitignore.lines,
                                  RelText(Rel(projectRoot,
                                              Last(ignLog').file))),
                 open |-> FALSE]
       ELSE gitignore' = gitignore]_vars


\* C18: in a seal run with dry-run enabled no key-management process is
\* started, yet AddToIgnored is called for every file whose Encrypt was
\* entered, before the next file and before the process ends, and it
\* reports a file as tracked exactly when the tracked query says so.
C18_DryRunStillIgnores ==
    (cmd = "seal" /\ dryRun)
    => /\ ~kmsInvoked
       /\ kmsLog = <<>>
       /\ kres = "nil"
       /\ pc \in {"ignoreRet", "sealLoop", "exit"}
          => Len(ignLog) = Len(gwLog)
       /\ \A j \in 1..Len(ignLog) :
             LET r == Rel(projectRoot, ignLog[j].file)
             IN  /\ ignLog[j].idx = gwLog[j]
                 /\ ignLog[j].branch = "tracked"
                    <=> (~r.err /\ GitLsFiles(projectRoot, r))

\* A dry run that ended with exit code 0 and a new line in the ignore list
\* of the repository for a file it never encrypted.
C18_Witness ==
    /\ cmd = "seal"
    /\ dryRun
    /\ ~kmsInvoked
    /\ pc = "exit"
    /\ exitCode = 0
    /\ \E j \in 1..Len(ignLog) :
          /\ ignLog[j].branch = "append"
          /\ ignLog[j].err = "nil"
          /\ GitAnswers(projectRoot, ignLog[j].file)
          /\ LinesFor(ignLog[j].file) = 1


\* C19: an AddToIgnored call whose git queries fail (ProjectRoot is in no
\* repository, or the file lies outside it) reads the file as not tracked
\* and not ignored and goes on to append; the call returns nil, the error
\* of the relative-path computation (exactly when that computation fails),
\* ErrFileAlreadyTracked (only from the tracked branch) or the I/O error of
\* the append (only from the append branch), and nothing else.
C19_QueryFailureIsNegative ==
    \A j \in 1..Len(ignLog) :
        LET e == ignLog[j]
            r == Rel(projectRoot, e.file)
        IN  /\ e.err \in {"nil", "rel", "ErrFileAlreadyTracked", "io"}
            /\ e.err = "rel" <=> r.err
            /\ e.err = "ErrFileAlreadyTracked" <=> e.branch = "tracked"
            /\ e.err = "io" => e.branch = "append"
            /\ (~r.err /\ ~GitAnswers(projectRoot, e.file))
               => (e.branch = "append" /\ e.err \in {"nil", "io"})

\* With ProjectRoot in no repository, a call appended the path of the file
\* and returned nil.
C19_Witness ==
    \E j \in 1..Len(ignLog) :
        /\ ~Rel(projectRoot, ignLog[j].file).err
        /\ ~GitTop(projectRoot).ok
        /\ ignLog[j].branch = "append"
        /\ ignLog[j].err = "nil"
        /\ \E i \in 1..Len(gitignore.lines) :
              gitignore.lines[i] = RelText(Rel(projectRoot, ignLog[j].file))


====
